---- MODULE Spec2Model ----
(***************************************************************************)
(* Model of media-manager's catalog repository (database/database.go) and  *)
(* of the classifier's directory placement (classifier.go).                *)
(*                                                                         *)
(* Text that the code inspects (category tags, directory names) is a       *)
(* sequence of one-character strings, so that LIKE, strings.Contains and   *)
(* the season regular expressions are computed and not assumed.  Text the  *)
(* code only compares for equality (title, year, season column, tmdb id)   *)
(* is a plain string.                                                      *)
(*                                                                         *)
(* The catalog store is the one the current schema creates: every row of   *)
(* media_records was written by InsertOrUpdateMediaRecord, so no column is *)
(* NULL.  Statements against the store succeed; the failures modelled are  *)
(* the Metadata Service error and the filesystem errors.                   *)
(***************************************************************************)
EXTENDS Integers, Sequences, FiniteSets, TLC

VARIABLES media_records, missing_seasons, missing_episodes, seq, target_seasons, tmdb_seasons, last

\* the media directory being placed, the directory of the same name under the
\* category directory, the media directory's own name, and the last placement
VARIABLES source, target, media_name, run

storeVars == <<media_records, missing_seasons, missing_episodes, seq, target_seasons, tmdb_seasons, last>>

placeVars == <<source, target, media_name, run>>

\* the processes of the program with the lock file they open, and the last
\* call of DetermineCategory with its result
VARIABLES procs, lock_file, classified

\* the last query of the store: its inputs and what it returned
VARIABLES queried

mainVars == <<procs, lock_file, classified, queried>>

vars == <<storeVars, placeVars, mainVars>>

----------------------------------------------------------------------------
(* Bounds of the model *)

MaxRows == 2
MaxVersion == 3
MaxRecVersion == 2
MaxMissing == 2
MaxTotal == 2
MaxDirs == 1

\* the files of a season directory, and the last system call of a run that may fail
DirFiles == 2

MaxFailAt == 6

\* the genres and the countries of one NFO file
MaxGenres == 2

MaxCountries == 2

\* the NFO files one run of the program finds
MaxTitles == 2

\* the clock readings of a run
MaxClock == 2

----------------------------------------------------------------------------
(* Character helpers *)

UpperLetters == <<"A","B","C","D","E","F","G","H","I","J","K","L","M","N","O","P","Q","R","S","T","U","V","W","X","Y","Z">>

LowerLetters == <<"a","b","c","d","e","f","g","h","i","j","k","l","m","n","o","p","q","r","s","t","u","v","w","x","y","z">>

LowerOf == [c \in {UpperLetters[i] : i \in 1..26} |-> LowerLetters[CHOOSE i \in 1..26 : UpperLetters[i] = c]]

\* strings.ToLower on one character; SQLite's LIKE folds the same 26 letters
ToLower(c) == IF c \in DOMAIN LowerOf THEN LowerOf[c] ELSE c

\* strings.Contains(s, sub)
Contains(s, sub) == \E i \in 0..(Len(s) - Len(sub)) : \A j \in 1..Len(sub) : s[i + j] = sub[j]

\* SQLite: s LIKE '%' || suf  (LIKE folds ASCII case)
LikeSuffix(s, suf) == Len(s) >= Len(suf) /\ \A j \in 1..Len(suf) : ToLower(s[Len(s) - Len(suf) + j]) = ToLower(suf[j])

----------------------------------------------------------------------------
(* Category tags *)

CategoryCnMovie == <<"C","n","M","o","v","i","e">>

CategoryCnShow == <<"C","n","S","h","o","w">>

CategoryEnMovie == <<"E","n","M","o","v","i","e">>

CategoryEnShow == <<"E","n","S","h","o","w">>

CategoryJpKrShow == <<"J","p","&","K","r","S","h","o","w">>

CategoryJpKrMovie == <<"J","p","&","K","r","M","o","v","i","e">>

CategoryDmMovie == <<"D","m","M","o","v","i","e">>

CategoryDmShow == <<"D","m","S","h","o","w">>

CategoryJlShow == <<"J","l","S","h","o","w">>

CategoryXSShow == <<"X","S","S","h","o","w">>

Show == <<"S","h","o","w">>

----------------------------------------------------------------------------
(* Inputs of the catalog operations *)

Titles == {"T1", "T2"}

Years == {"2002"}

SeasonTexts == {"", "1"}

TMDbIDs == {"", "tm1"}

\* a domestic film and a documentary (film or series): a tag that does not
\* end in "Show" and one that does
UpsertCategories == {CategoryCnMovie, CategoryJlShow}

\* the records UpsertCatalog is called with
MediaRecord == [ID : {0}, Title : Titles, Year : Years, Season : SeasonTexts, Category : UpsertCategories, Version : {0, MaxRecVersion}, IsComplete : {FALSE}, TMDbID : {"tm1"}]

\* the records DetectMissing is called with: a series record as ClassifyAndMove
\* builds it (version 0, not complete), with and without a season and a tmdb id
DetectRecord == [ID : {0}, Title : {"T1"}, Year : Years, Season : SeasonTexts, Category : {CategoryJlShow}, Version : {0}, IsComplete : {FALSE}, TMDbID : TMDbIDs]

NoRecord == [ID |-> 0, Title |-> "", Year |-> "", Season |-> "", Category |-> <<>>, Version |-> 0, IsComplete |-> FALSE, TMDbID |-> ""]

MissingSeason == [MediaID : {0}, Title : {"T1"}, TMDbID : {"tm1"}, Season : 1..MaxTotal]

MissingEpisode == [MediaID : {0}, Title : {"T1"}, TMDbID : {"tm1"}, Season : {1}, Episode : 1..2]

Statuses == {"missing", "resolved"}

Tables == {"missing_seasons", "missing_episodes"}

----------------------------------------------------------------------------
(* InsertOrUpdateMediaRecord *)

\* SELECT id, version ... WHERE title = ? AND year = ? AND category NOT LIKE '%Show'
MovieQuery(rows, rec) == {r \in rows : r.title = rec.Title /\ r.year = rec.Year /\ ~LikeSuffix(r.category, Show)}

\* SELECT id, version ... WHERE title = ? AND year = ? AND season = ? AND category LIKE '%Show'
ShowQuery(rows, rec) == {r \in rows : r.title = rec.Title /\ r.year = rec.Year /\ r.season = rec.Season /\ LikeSuffix(r.category, Show)}

ExistingQuery(rows, rec) == IF rec.Season = "" THEN MovieQuery(rows, rec) ELSE ShowQuery(rows, rec)

\* QueryRow: the first row of the table scan, which is in rowid order
QueryRow(matches) == CHOOSE r \in matches : \A q \in matches : r.id <= q.id

InsertedRow(id, rec) == [id |-> id, title |-> rec.Title, year |-> rec.Year, season |-> rec.Season, category |-> rec.Category, version |-> IF rec.Version > 0 THEN rec.Version ELSE 1, is_complete |-> rec.IsComplete]

UpdatedRow_KeepVersion(existing, rec) == [existing EXCEPT !.category = rec.Category, !.version = existing.version, !.is_complete = rec.IsComplete]

UpdatedRow(existing, rec) == [existing EXCEPT !.category = rec.Category, !.version = existing.version + 1, !.is_complete = rec.IsComplete]

InsertOrUpdateMediaRecord(rows, autoinc, rec) ==
    LET matches == ExistingQuery(rows, rec)
    IN  IF matches = {}
        THEN [rows |-> rows \cup {InsertedRow(autoinc + 1, rec)}, autoinc |-> autoinc + 1, found |-> FALSE, id |-> autoinc + 1]
        ELSE LET existing == QueryRow(matches)
             IN  [rows |-> (rows \ {existing}) \cup {UpdatedRow(existing, rec)}, autoinc |-> autoinc, found |-> TRUE, id |-> existing.id]

RowById(rows, id) == CHOOSE r \in rows : r.id = id

\* the rows that carry the natural key of rec
KeyRows(rows, rec) == {r \in rows : r.title = rec.Title /\ r.year = rec.Year /\ r.season = rec.Season}

\* the model's bound on the table: an insert needs room, an update a version below the cap
UpsertInBounds(rows, rec) ==
    IF ExistingQuery(rows, rec) = {} THEN Cardinality(rows) < MaxRows ELSE QueryRow(ExistingQuery(rows, rec)).version < MaxVersion

----------------------------------------------------------------------------
(* Missing-item tables *)

MissingSeasonQuery_StatusMisspelt(rows, rec) == {r \in rows : r.title = rec.Title /\ r.tmdb_id = rec.TMDbID /\ r.season = rec.Season /\ r.status = "Missing"}

\* SELECT id FROM missing_seasons WHERE title = ? AND tmdb_id = ? AND season = ? AND status = 'missing'
MissingSeasonQuery(rows, rec) == {r \in rows : r.title = rec.Title /\ r.tmdb_id = rec.TMDbID /\ r.season = rec.Season /\ r.status = "missing"}

InsertMissingSeason(rows, autoinc, rec) ==
    IF MissingSeasonQuery(rows, rec) = {}
    THEN [rows |-> rows \cup {[id |-> autoinc + 1, media_id |-> rec.MediaID, title |-> rec.Title, tmdb_id |-> rec.TMDbID, season |-> rec.Season, status |-> "missing"]}, autoinc |-> autoinc + 1]
    ELSE [rows |-> rows, autoinc |-> autoinc]

\* SELECT id FROM missing_episodes WHERE title = ? AND tmdb_id = ? AND season = ? AND episode = ? AND status = 'missing'
MissingEpisodeQuery(rows, rec) == {r \in rows : r.title = rec.Title /\ r.tmdb_id = rec.TMDbID /\ r.season = rec.Season /\ r.episode = rec.Episode /\ r.status = "missing"}

InsertMissingEpisode(rows, autoinc, rec) ==
    IF MissingEpisodeQuery(rows, rec) = {}
    THEN [rows |-> rows \cup {[id |-> autoinc + 1, media_id |-> rec.MediaID, title |-> rec.Title, tmdb_id |-> rec.TMDbID, season |-> rec.Season, episode |-> rec.Episode, status |-> "missing"]}, autoinc |-> autoinc + 1]
    ELSE [rows |-> rows, autoinc |-> autoinc]

\* UPDATE <table> SET status = ?, updated_at = ? WHERE id = ?
UpdateMissingItemStatus(rows, id, status) == {IF r.id = id THEN [r EXCEPT !.status = status] ELSE r : r \in rows}

----------------------------------------------------------------------------
(* DetectMissingSeasonsAndEpisodes *)

\* the season lists GetExistingSeasons can return: one number per season
\* directory, in directory order, repeated when two directories name one season
SeasonLists == UNION {[1..n -> 1..MaxTotal] : n \in 0..MaxDirs}

InList(list, x) == \E k \in 1..Len(list) : list[k] = x

\* the loop over i = 1..totalSeasons, from season i on
RECURSIVE RecordMissingSeasons(_, _, _, _, _, _)
RecordMissingSeasons(rows, autoinc, rec, existingSeasons, i, totalSeasons) ==
    IF i > totalSeasons THEN [rows |-> rows, autoinc |-> autoinc]
    ELSE IF InList(existingSeasons, i) THEN RecordMissingSeasons(rows, autoinc, rec, existingSeasons, i + 1, totalSeasons)
    ELSE LET ins == InsertMissingSeason(rows, autoinc, [MediaID |-> rec.ID, Title |-> rec.Title, TMDbID |-> rec.TMDbID, Season |-> i])
         IN  RecordMissingSeasons(ins.rows, ins.autoinc, rec, existingSeasons, i + 1, totalSeasons)

IsCompleteFlag(existingSeasons, totalSeasons) == Len(existingSeasons) = totalSeasons

----------------------------------------------------------------------------
(* DetermineCategory *)

\* strings.ToLower of a text
ToLowerText(s) == [i \in 1..Len(s) |-> ToLower(s[i])]

ContainsAny_CaseSensitive(text, keywords) == \E k \in 1..Len(keywords) : Contains(text, keywords[k])

\* strings.Contains(strings.ToLower(text), keyword) for some keyword of the list
ContainsAny(text, keywords) == \E k \in 1..Len(keywords) : Contains(ToLowerText(text), keywords[k])

DocumentaryKeywords == <<<<"U+7EAA", "U+5F55", "U+7247">>, <<"d", "o", "c", "u", "m", "e", "n", "t", "a", "r", "y">>>>

VarietyKeywords == <<<<"U+7EFC", "U+827A", "U+8282", "U+76EE">>, <<"v", "a", "r", "i", "e", "t", "y">>, <<"U+771F", "U+4EBA", "U+79C0">>, <<"r", "e", "a", "l", "i", "t", "y">>, <<"U+771F", "U+4EBA", "U+8282", "U+76EE">>, <<"r", "e", "a", "l", "i", "t", "y", " ", "s", "h", "o", "w">>, <<"U+8131", "U+53E3", "U+79C0">>, <<"t", "a", "l", "k", " ", "s", "h", "o", "w">>, <<"U+6E38", "U+620F", "U+8282", "U+76EE">>, <<"g", "a", "m", "e", "-", "s", "h", "o", "w">>, <<"U+7ADE", "U+8D5B", "U+8282", "U+76EE">>, <<"c", "o", "m", "p", "e", "t", "i", "t", "i", "o", "n">>, <<"U+9009", "U+79C0", "U+8282", "U+76EE">>, <<"t", "a", "l", "e", "n", "t", " ", "s", "h", "o", "w">>>>

AnimeKeywords == <<<<"U+52A8", "U+6F2B">>, <<"U+52A8", "U+753B">>, <<"a", "n", "i", "m", "a", "t", "i", "o", "n">>>>

JpKrKeywords == <<<<"U+65E5", "U+672C">>, <<"U+65E5", "U+672C", "U+56FD">>, <<"j", "a", "p", "a", "n">>, <<"U+97E9", "U+56FD">>, <<"U+5927", "U+97E9", "U+6C11", "U+56FD">>, <<"k", "o", "r", "e", "a">>, <<"s", "o", "u", "t", "h", " ", "k", "o", "r", "e", "a">>>>

CnKeywords == <<<<"U+4E2D", "U+56FD", "U+5927", "U+9646">>, <<"U+4E2D", "U+56FD", "U+9999", "U+6E2F">>, <<"U+9999", "U+6E2F", "U+7279", "U+522B", "U+884C", "U+653F", "U+533A">>, <<"U+4E2D", "U+56FD", "U+53F0", "U+6E7E">>, <<"U+53F0", "U+6E7E", "U+5730", "U+533A">>, <<"U+9999", "U+6E2F">>, <<"U+53F0", "U+6E7E">>, <<"U+4E2D", "U+56FD">>, <<"U+4E2D", "U+534E", "U+4EBA", "U+6C11", "U+5171", "U+548C", "U+56FD">>, <<"c", "h", "i", "n", "a">>, <<"h", "o", "n", "g", " ", "k", "o", "n", "g">>, <<"t", "a", "i", "w", "a", "n">>>>

AnyGenre(genres, keywords) == \E g \in 1..Len(genres) : ContainsAny(genres[g], keywords)

Category(category) == [category |-> category, err |-> FALSE]

\* the error "no valid country information", with the empty category
NoCountryError == [category |-> <<>>, err |-> TRUE]

CategoryOfCountries_DefaultOther(countries, isTVShow) ==
    IF Len(countries) > 0 /\ ContainsAny(countries[1], JpKrKeywords) THEN Category(IF isTVShow THEN CategoryJpKrShow ELSE CategoryJpKrMovie)
    ELSE IF Len(countries) > 0 /\ ContainsAny(countries[1], CnKeywords) THEN Category(IF isTVShow THEN CategoryCnShow ELSE CategoryCnMovie)
    ELSE Category(IF isTVShow THEN CategoryEnShow ELSE CategoryEnMovie)

CategoryOfCountries_AnyJpKr(countries, isTVShow) ==
    IF Len(countries) = 0 THEN NoCountryError
    ELSE IF \E c \in 1..Len(countries) : ContainsAny(countries[c], JpKrKeywords) THEN Category(IF isTVShow THEN CategoryJpKrShow ELSE CategoryJpKrMovie)
    ELSE IF ContainsAny(countries[1], CnKeywords) THEN Category(IF isTVShow THEN CategoryCnShow ELSE CategoryCnMovie)
    ELSE Category(IF isTVShow THEN CategoryEnShow ELSE CategoryEnMovie)

CategoryOfCountries_CnFirst(countries, isTVShow) ==
    IF Len(countries) = 0 THEN NoCountryError
    ELSE IF ContainsAny(countries[1], CnKeywords) THEN Category(IF isTVShow THEN CategoryCnShow ELSE CategoryCnMovie)
    ELSE IF ContainsAny(countries[1], JpKrKeywords) THEN Category(IF isTVShow THEN CategoryJpKrShow ELSE CategoryJpKrMovie)
    ELSE Category(IF isTVShow THEN CategoryEnShow ELSE CategoryEnMovie)

\* the loop over the countries, which returns in its first round
CategoryOfCountries(countries, isTVShow) ==
    IF Len(countries) = 0 THEN NoCountryError
    ELSE IF ContainsAny(countries[1], JpKrKeywords) THEN Category(IF isTVShow THEN CategoryJpKrShow ELSE CategoryJpKrMovie)
    ELSE IF ContainsAny(countries[1], CnKeywords) THEN Category(IF isTVShow THEN CategoryCnShow ELSE CategoryCnMovie)
    ELSE Category(IF isTVShow THEN CategoryEnShow ELSE CategoryEnMovie)

DetermineCategory_AnimeBeforeVariety(countries, isTVShow, genres) ==
    IF AnyGenre(genres, DocumentaryKeywords) THEN Category(CategoryJlShow)
    ELSE IF AnyGenre(genres, AnimeKeywords) THEN Category(IF isTVShow THEN CategoryDmShow ELSE CategoryDmMovie)
    ELSE IF AnyGenre(genres, VarietyKeywords) THEN Category(CategoryXSShow)
    ELSE CategoryOfCountries(countries, isTVShow)

DetermineCategory(countries, isTVShow, genres) ==
    IF AnyGenre(genres, DocumentaryKeywords) THEN Category(CategoryJlShow)
    ELSE IF AnyGenre(genres, VarietyKeywords) THEN Category(CategoryXSShow)
    ELSE IF AnyGenre(genres, AnimeKeywords) THEN Category(IF isTVShow THEN CategoryDmShow ELSE CategoryDmMovie)
    ELSE CategoryOfCountries(countries, isTVShow)

\* genres and countries as the NFO file or the Metadata Service spell them;
\* CountryText.ChinaJapan is one entry that names two countries
GenreText ==
    [Documentary |-> <<"D", "o", "c", "u", "m", "e", "n", "t", "a", "r", "y">>,
     Jilupian    |-> <<"U+7EAA", "U+5F55", "U+7247">>,
     RealityShow |-> <<"U+771F", "U+4EBA", "U+79C0">>,
     Animation   |-> <<"U+52A8", "U+753B">>,
     Drama       |-> <<"U+5267", "U+60C5">>]

CountryText ==
    [Riben      |-> <<"U+65E5", "U+672C">>,
     Japan      |-> <<"J", "a", "p", "a", "n">>,
     Zhongguo   |-> <<"U+4E2D", "U+56FD">>,
     HongKong   |-> <<"U+4E2D", "U+56FD", "U+9999", "U+6E2F">>,
     Germany    |-> <<"G", "e", "r", "m", "a", "n", "y">>,
     ChinaJapan |-> <<"C", "h", "i", "n", "a", ",", " ", "J", "a", "p", "a", "n">>]

GenreTexts == {GenreText[k] : k \in DOMAIN GenreText}

CountryTexts == {CountryText[k] : k \in DOMAIN CountryText}

\* the sequences of at most n elements of S
SeqUpTo(S, n) == UNION {[1..k -> S] : k \in 0..n}

\* DetermineCategory has not been called
Unclassified == [called |-> FALSE, countries |-> <<>>, isTVShow |-> FALSE, genres |-> <<>>, result |-> NoCountryError]

----------------------------------------------------------------------------
(* The processes of the program *)

Procs == {"p1", "p2"}

\* the command line: -config, -scrape-*, -nfo, -dir, or none of them
Commands == {"config", "scrape", "nfo", "dir", "usage"}

\* what goes wrong with an NFO file: nothing, ProcessGenre, ProcessActor or ClassifyAndMove returns an error
TitleFaults == {"none", "genre", "actor", "classify"}

\* a process that has not been started
NotStarted == [pc |-> "idle", cmd |-> "usage", titles |-> <<>>, next |-> 1, handled |-> {}, exit |-> "none"]

\* the lock file is opened, created when it does not exist; whether that
\* fails or not, the answer is true
ensureSingleProcess(openFails) == IF openFails THEN TRUE ELSE TRUE

----------------------------------------------------------------------------
(* Directory names and the season number read from them *)

Digits == <<"0", "1", "2", "3", "4", "5", "6", "7", "8", "9">>

DigitOf == [c \in {Digits[i] : i \in 1..10} |-> (CHOOSE i \in 1..10 : Digits[i] = c) - 1]

IsDigit(c) == c \in DOMAIN DigitOf

\* the class \s of the patterns, as far as the names of the model have it
IsSpace(c) == c = " "

\* the characters of the model's names in the order of their bytes
CharOrder == <<" ", "-", ".", "0", "1", "2", "3", "4", "5", "6", "7", "8", "9", "A", "D", "E", "M", "R", "S", "X", "a", "d", "e", "f", "g", "h", "j", "m", "n", "o", "p", "r", "s", "t", "v", "w", "U+5B63", "U+7B2C">>

OrdOf == [c \in {CharOrder[i] : i \in 1..Len(CharOrder)} |-> CHOOSE i \in 1..Len(CharOrder) : CharOrder[i] = c]

\* s sorts before t by filename
NameLess(s, t) ==
    \E k \in 1..Len(t) :
        /\ \A j \in 1..(k - 1) : j <= Len(s) /\ s[j] = t[j]
        /\ k > Len(s) \/ OrdOf[s[k]] < OrdOf[t[k]]

\* os.ReadDir returns the entries sorted by filename
RECURSIVE SortNames(_)
SortNames(names) ==
    IF names = {} THEN <<>>
    ELSE LET first == CHOOSE n \in names : \A m \in names \ {n} : NameLess(n, m)
         IN  <<first>> \o SortNames(names \ {first})

\* the literal lit (lower case) stands at position i of s, whatever the case
LiteralAt(s, i, lit) == i + Len(lit) - 1 <= Len(s) /\ \A j \in 1..Len(lit) : ToLower(s[i + j - 1]) = lit[j]

\* the last position of the longest run of spaces, or of digits, that starts at i (i - 1 when there is none)
SpacesEnd(s, i) == CHOOSE e \in (i - 1)..Len(s) : (\A k \in i..e : IsSpace(s[k])) /\ (e = Len(s) \/ ~IsSpace(s[e + 1]))

DigitsEnd(s, i) == CHOOSE e \in (i - 1)..Len(s) : (\A k \in i..e : IsDigit(s[k])) /\ (e = Len(s) \/ ~IsDigit(s[e + 1]))

\* strconv.Atoi of s[i..e]
RECURSIVE Atoi(_, _, _)
Atoi(s, i, e) == IF e < i THEN 0 ELSE 10 * Atoi(s, i, e - 1) + DigitOf[s[e]]

Leftmost(positions) == CHOOSE i \in positions : \A j \in positions : i <= j

\* (?i)season\s*(\d+): where the pattern matches, and the number it captures at the leftmost match
SeasonWordMatches(s) == {i \in 1..Len(s) : LiteralAt(s, i, <<"s", "e", "a", "s", "o", "n">>) /\ DigitsEnd(s, SpacesEnd(s, i + 6) + 1) > SpacesEnd(s, i + 6)}

SeasonWordNumber(s) == LET d == SpacesEnd(s, Leftmost(SeasonWordMatches(s)) + 6) + 1 IN Atoi(s, d, DigitsEnd(s, d))

\* (?i)U+7B2C(\d+)U+5B63, the pattern of line 554; a character outside ASCII is written by its code point
SeasonHanMatches(s) == {i \in 1..Len(s) : s[i] = "U+7B2C" /\ DigitsEnd(s, i + 1) > i /\ DigitsEnd(s, i + 1) < Len(s) /\ s[DigitsEnd(s, i + 1) + 1] = "U+5B63"}

SeasonHanNumber(s) == LET d == Leftmost(SeasonHanMatches(s)) + 1 IN Atoi(s, d, DigitsEnd(s, d))

\* (?i)S(\d+)
SeasonLetterMatches(s) == {i \in 1..Len(s) : ToLower(s[i]) = "s" /\ DigitsEnd(s, i + 1) > i}

SeasonLetterNumber(s) == LET d == Leftmost(SeasonLetterMatches(s)) + 1 IN Atoi(s, d, DigitsEnd(s, d))

\* the first pattern that matches gives the number, 0 when none matches
GetSeasonNumberFromDirName(dirName) ==
    IF SeasonWordMatches(dirName) # {} THEN SeasonWordNumber(dirName)
    ELSE IF SeasonHanMatches(dirName) # {} THEN SeasonHanNumber(dirName)
    ELSE IF SeasonLetterMatches(dirName) # {} THEN SeasonLetterNumber(dirName)
    ELSE 0

NameSeason1 == <<"S", "e", "a", "s", "o", "n", " ", "1">>

NameHanSeason1 == <<"U+7B2C", "1", "U+5B63">>

NameSeason2 == <<"S", "e", "a", "s", "o", "n", " ", "2">>

NamePoster3 == <<"s", "e", "a", "s", "o", "n", "0", "3", "-", "p", "o", "s", "t", "e", "r", ".", "j", "p", "g">>

NameNfo == <<"t", "v", "s", "h", "o", "w", ".", "n", "f", "o">>

EntryNames == {NameSeason1, NameHanSeason1, NameSeason2, NamePoster3, NameNfo}

\* the files whose presence makes a directory a project directory
ProjectFiles ==
    <<<<"g", "o", ".", "m", "o", "d">>, <<"m", "a", "i", "n", ".", "g", "o">>, <<"g", "o", ".", "s", "u", "m">>,
      <<"C", "M", "a", "k", "e", "L", "i", "s", "t", "s", ".", "t", "x", "t">>, <<"M", "a", "k", "e", "f", "i", "l", "e">>,
      <<"p", "a", "c", "k", "a", "g", "e", ".", "j", "s", "o", "n">>,
      <<"r", "e", "q", "u", "i", "r", "e", "m", "e", "n", "t", "s", ".", "t", "x", "t">>,
      <<"R", "E", "A", "D", "M", "E", ".", "m", "d">>, <<"R", "E", "A", "D", "M", "E", ".", "t", "x", "t">>,
      <<".", "g", "i", "t">>>>

\* the project file of the model's directories: README.md
NameReadme == ProjectFiles[8]

ProjectFileNames == {ProjectFiles[k] : k \in 1..Len(ProjectFiles)}

EpisodeNames == {<<"e", Digits[k + 1]>> : k \in 1..DirFiles}

MediaNames == {<<"X">>, <<"X", " ", "S", "2">>}

\* every name of the model, the season number GetSeasonNumberFromDirName reads
\* from each, and the order os.ReadDir lists them in
AllNames == EntryNames \cup EpisodeNames \cup MediaNames \cup {NameReadme}

SeasonNumberOf == [name \in AllNames |-> GetSeasonNumberFromDirName(name)]

ReadDirOrder == SortNames(AllNames)

\* os.ReadDir(dir): the names of its entries, sorted by filename
ReadDir(dir) == SelectSeq(ReadDirOrder, LAMBDA name : name \in DOMAIN dir.entries)

----------------------------------------------------------------------------
(* Directory trees, MoveDirectory and the placement of a media directory *)

\* a path holds nothing, a file with its content, or a directory with its entries by name
Absent == [kind |-> "absent"]

File(data) == [kind |-> "file", data |-> data]

Dir(entries) == [kind |-> "dir", entries |-> entries]

Entry(dir, name) == IF name \in DOMAIN dir.entries THEN dir.entries[name] ELSE Absent

\* the directory with `node' at `name', without the entry when node is Absent
WithEntry(dir, name, node) ==
    IF node.kind = "absent"
    THEN Dir([n \in DOMAIN dir.entries \ {name} |-> dir.entries[n]])
    ELSE Dir([n \in DOMAIN dir.entries \cup {name} |-> IF n = name THEN node ELSE dir.entries[n]])

\* the input/output of one run: every system call on the directories is
\* numbered in the order the run makes it, call number failAt fails (0: none
\* does), and xdev says that source and target lie on different devices, so
\* that every os.Rename from the one to the other fails
Fails(k, io) == k = io.failAt

\* os.Rename(src, dst) as call k: an existing directory at dst, or a file where a directory is to go, refuses it
RenameWorks(s, d, k, io) == ~io.xdev /\ ~Fails(k, io) /\ d.kind # "dir" /\ ~(s.kind = "dir" /\ d.kind = "file")

\* what a move or copy leaves: the node at the source path, the node at the
\* destination path, the number of calls made so far and whether it failed
Moved(s, d, n, err) == [src |-> s, dst |-> d, n |-> n, err |-> err]

RECURSIVE MoveDirectory(_, _, _, _)
RECURSIVE CopyEntries(_, _, _, _, _)
\* the fallback of MoveDirectory without its os.RemoveAll(src)
RemoveCopied_KeepSource(copied, io) ==
    IF copied.err THEN copied ELSE Moved(copied.src, copied.dst, copied.n + 1, FALSE)

\* a fallback that removes the source whatever its loop came to
RemoveCopied_AfterFailure(copied, io) == Moved(Absent, copied.dst, copied.n + 1, copied.err)

\* the end of MoveDirectory's fallback: `copied' is what its loop left, and os.RemoveAll(src) follows
RemoveCopied(copied, io) ==
    IF copied.err THEN copied
    ELSE IF Fails(copied.n + 1, io) THEN Moved(copied.src, copied.dst, copied.n + 1, TRUE)
    ELSE Moved(Absent, copied.dst, copied.n + 1, FALSE)

\* the fallback of MoveDirectory from os.ReadDir(src) on, `made' being dst after os.MkdirAll
CopyInto(s, made, n, io) ==
    IF s.kind = "file" \/ Fails(n + 3, io) THEN Moved(s, made, n + 3, TRUE)
    ELSE RemoveCopied(CopyEntries(s, made, ReadDir(s), n + 3, io), io)

\* s is the node at src and d the node at dst; n calls were made before
MoveDirectory(s, d, n, io) ==
    IF s.kind = "absent" THEN Moved(s, d, n + 1, TRUE)
    ELSE IF RenameWorks(s, d, n + 1, io) THEN Moved(Absent, s, n + 1, FALSE)
    ELSE IF d.kind = "file" THEN Moved(s, d, n + 2, TRUE)
    ELSE IF d.kind = "absent" /\ Fails(n + 2, io) THEN Moved(s, d, n + 2, TRUE)
    ELSE CopyInto(s, IF d.kind = "absent" THEN Dir(<<>>) ELSE d, n, io)

\* the loop of MoveDirectory after the recursive call for the subdirectory `name' left `sub'
CopiedSubdirectory(s, d, name, rest, sub, io) ==
    IF sub.err
    THEN Moved(WithEntry(s, name, sub.src), WithEntry(d, name, sub.dst), sub.n, TRUE)
    ELSE CopyEntries(WithEntry(s, name, sub.src), WithEntry(d, name, sub.dst), rest, sub.n, io)

\* the loop of MoveDirectory over the entries of src, from the first of `names' on;
\* copyFile is one call, which leaves a truncated file at dst when it fails
CopyEntries(s, d, names, n, io) ==
    IF names = <<>> THEN Moved(s, d, n, FALSE)
    ELSE IF s.entries[Head(names)].kind = "dir"
         THEN CopiedSubdirectory(s, d, Head(names), Tail(names), MoveDirectory(s.entries[Head(names)], Entry(d, Head(names)), n, io), io)
         ELSE IF Entry(d, Head(names)).kind = "dir" THEN Moved(s, d, n + 1, TRUE)
         ELSE IF Fails(n + 1, io) THEN Moved(s, WithEntry(d, Head(names), File("truncated")), n + 1, TRUE)
         ELSE CopyEntries(s, WithEntry(d, Head(names), s.entries[Head(names)]), Tail(names), n + 1, io)

\* the season numbers of the subdirectories of dir, in the order of `names'
RECURSIVE SeasonNumbers(_, _)
SeasonNumbers(dir, names) ==
    IF names = <<>> THEN <<>>
    ELSE LET seasonNumber == SeasonNumberOf[Head(names)]
         IN  (IF dir.entries[Head(names)].kind = "dir" /\ seasonNumber > 0 THEN <<seasonNumber>> ELSE <<>>) \o SeasonNumbers(dir, Tail(names))

GetExistingSeasons(targetMediaPath) ==
    IF targetMediaPath.kind = "absent" THEN <<>> ELSE SeasonNumbers(targetMediaPath, ReadDir(targetMediaPath))

\* the seasons of the subdirectories of mediaDir, or that of its own name when it has none
GetNewSeasons(mediaDir, mediaName) ==
    LET newSeasons == SeasonNumbers(mediaDir, ReadDir(mediaDir))
    IN  IF Len(newSeasons) = 0 /\ SeasonNumberOf[mediaName] > 0 THEN <<SeasonNumberOf[mediaName]>> ELSE newSeasons

\* seasonsToAdd of HasNewSeasons
HasNewSeasons(mediaDir, mediaName, targetMediaPath) ==
    LET existingSeasons == GetExistingSeasons(targetMediaPath)
    IN  SelectSeq(GetNewSeasons(mediaDir, mediaName), LAMBDA newSeason : ~InList(existingSeasons, newSeason))

\* what the merge loop has done so far: the two directories, the calls made,
\* the entries whose move failed and those it skipped with a warning
Merged(s, d, n, failed, skipped) == [src |-> s, dst |-> d, n |-> n, failed |-> failed, skipped |-> skipped]

RECURSIVE MergeEntries(_, _, _, _, _, _, _)
\* the merge loop after MoveDirectory for the entry `name' left `sub'
MergedEntry(s, d, name, rest, sub, io, failed, skipped) ==
    MergeEntries(WithEntry(s, name, sub.src), WithEntry(d, name, sub.dst), rest, sub.n, io, IF sub.err THEN failed \cup {name} ELSE failed, skipped)

\* the entry `name' has no counterpart at the target: a directory is moved by MoveDirectory, a file by os.Rename
MergeNewEntry(s, d, name, rest, n, io, failed, skipped) ==
    IF s.entries[name].kind = "dir" THEN MergedEntry(s, d, name, rest, MoveDirectory(s.entries[name], Absent, n, io), io, failed, skipped)
    ELSE IF io.xdev \/ Fails(n + 1, io) THEN MergeEntries(s, d, rest, n + 1, io, failed \cup {name}, skipped)
    ELSE MergeEntries(WithEntry(s, name, Absent), WithEntry(d, name, s.entries[name]), rest, n + 1, io, failed, skipped)

\* the entry `name' has a counterpart at the target and its name carries seasonNum:
\* existingSeasons is what GetExistingSeasons(targetMediaPath) returned, nothing when its read failed
MergeSeasonEntry(s, d, name, rest, n, io, failed, skipped, seasonNum, existingSeasons) ==
    IF ~InList(existingSeasons, seasonNum)
    THEN MergedEntry(s, d, name, rest, MoveDirectory(s.entries[name], Entry(d, name), n + 1, io), io, failed, skipped)
    ELSE MergeEntries(s, d, rest, n + 1, io, failed, skipped \cup {name})

\* the loop over the entries of mediaDir as listed before the loop, from the first of `names' on
MergeEntries(s, d, names, n, io, failed, skipped) ==
    IF names = <<>> THEN Merged(s, d, n, failed, skipped)
    ELSE IF Entry(d, Head(names)).kind = "absent" THEN MergeNewEntry(s, d, Head(names), Tail(names), n, io, failed, skipped)
    ELSE IF SeasonNumberOf[Head(names)] > 0
         THEN MergeSeasonEntry(s, d, Head(names), Tail(names), n, io, failed, skipped, SeasonNumberOf[Head(names)],
                               IF Fails(n + 1, io) THEN <<>> ELSE GetExistingSeasons(d))
         ELSE MergeEntries(s, d, Tail(names), n, io, failed, skipped \cup {Head(names)})

\* what the placement of ClassifyAndMove did
Placed(outcome, s, d, seasonsToAdd, failed, skipped) ==
    [outcome |-> outcome, source |-> s, target |-> d, seasonsToAdd |-> seasonsToAdd, failed |-> failed, skipped |-> skipped]

\* the end of a merge: m is what the loop left, and os.RemoveAll(mediaDir) follows
RemoveMerged(m, seasonsToAdd, io) ==
    Placed("merged", IF Fails(m.n + 1, io) THEN m.src ELSE Absent, m.dst, seasonsToAdd, m.failed, m.skipped)

\* a series whose target exists, HasNewSeasons having returned seasonsToAdd
PlaceSeasons(mediaDir, targetMediaPath, seasonsToAdd, io) ==
    IF Len(seasonsToAdd) = 0 THEN Placed("skipped: no new seasons", mediaDir, targetMediaPath, <<>>, {}, {})
    ELSE IF Fails(3, io) THEN Placed("error", mediaDir, targetMediaPath, seasonsToAdd, {}, {})
    ELSE RemoveMerged(MergeEntries(mediaDir, targetMediaPath, ReadDir(mediaDir), 3, io, {}, {}), seasonsToAdd, io)

\* the target does not exist: m is what MoveDirectory(mediaDir, targetMediaPath) left
PlaceWhole(m) == Placed(IF m.err THEN "error" ELSE "moved", m.src, m.dst, <<>>, {}, {})

\* the placement without the test of isTVShow at line 219: a movie is merged as a series is
PlaceMedia_MoviesMerge(mediaDir, mediaName, targetMediaPath, isTVShow, io) ==
    IF targetMediaPath.kind # "absent"
    THEN IF Fails(1, io) \/ Fails(2, io) THEN Placed("skipped: seasons unread", mediaDir, targetMediaPath, <<>>, {}, {})
         ELSE PlaceSeasons(mediaDir, targetMediaPath, HasNewSeasons(mediaDir, mediaName, targetMediaPath), io)
    ELSE PlaceWhole(MoveDirectory(mediaDir, Absent, 0, io))

\* lines 216 to 310 of ClassifyAndMove: mediaDir is placed at targetMediaPath
PlaceMedia(mediaDir, mediaName, targetMediaPath, isTVShow, io) ==
    IF targetMediaPath.kind # "absent"
    THEN IF ~isTVShow THEN Placed("skipped: duplicate", mediaDir, targetMediaPath, <<>>, {}, {})
         ELSE IF Fails(1, io) \/ Fails(2, io) THEN Placed("skipped: seasons unread", mediaDir, targetMediaPath, <<>>, {}, {})
         ELSE PlaceSeasons(mediaDir, targetMediaPath, HasNewSeasons(mediaDir, mediaName, targetMediaPath), io)
    ELSE PlaceWhole(MoveDirectory(mediaDir, Absent, 0, io))

----------------------------------------------------------------------------
(* The catalog repository as a state machine *)

\* what the last operation was called with and what it met: `again' says that
\* it repeated the operation before it with the same record, `found' and `id'
\* the row its lookup found or its insert created, `keyRows' and `preVersion'
\* the rows under the record's natural key before the call
LastOp(op, rec, found, id, keyRows, preVersion, flag) ==
    [op |-> op, rec |-> rec, again |-> (last.op = op /\ last.rec = rec), found |-> found, id |-> id, keyRows |-> keyRows, preVersion |-> preVersion, flag |-> flag]

\* no placement has run
NoRun ==
    [outcome |-> "none", isTVShow |-> FALSE, xdev |-> FALSE, seasonsToAdd |-> <<>>, failed |-> {}, skipped |-> {}, source0 |-> Absent, target0 |-> Absent,
     category |-> <<>>, tmdbID |-> "", steps |-> <<>>, detect |-> "none", flag |-> FALSE, report |-> "none"]

\* a filter map without a key, and no query made: a key of the map is <<>>
\* when absent and <<v>> when present with the value v
EmptyFilter == [title |-> <<>>, category |-> <<>>, is_complete |-> <<>>, tmdb_id |-> <<>>, season |-> <<>>]

NoQuery == [op |-> "none", filter |-> EmptyFilter, rec |-> NoRecord, now |-> 0, result |-> <<>>]

Opened == [op |-> "open", rec |-> NoRecord, again |-> FALSE, found |-> FALSE, id |-> 0, keyRows |-> 0, preVersion |-> 0, flag |-> FALSE]

Init ==
    /\ media_records = {}
    /\ missing_seasons = {}
    /\ missing_episodes = {}
    /\ seq = [media_records |-> 0, missing_seasons |-> 0, missing_episodes |-> 0]
    /\ target_seasons = <<>>
    /\ tmdb_seasons = 0
    /\ last = Opened
    /\ source = Absent
    /\ target = Absent
    /\ media_name = <<>>
    /\ run = NoRun
    /\ procs = [p \in Procs |-> NotStarted]
    /\ lock_file = FALSE
    /\ classified = Unclassified
    /\ queried = NoQuery

\* the version of the single row that carries rec's natural key, 0 when there is not exactly one
SoleKeyVersion(rows, rec) == IF Cardinality(KeyRows(rows, rec)) = 1 THEN (CHOOSE r \in KeyRows(rows, rec) : TRUE).version ELSE 0

UpsertCatalog(rec) ==
    /\ UpsertInBounds(media_records, rec)
    /\ LET res == InsertOrUpdateMediaRecord(media_records, seq.media_records, rec)
       IN  /\ media_records' = res.rows
           /\ seq' = [seq EXCEPT !.media_records = res.autoinc]
           /\ last' = LastOp("UpsertCatalog", rec, res.found, res.id, Cardinality(KeyRows(media_records, rec)), SoleKeyVersion(media_records, rec), FALSE)
    /\ UNCHANGED <<missing_seasons, missing_episodes, target_seasons, tmdb_seasons>>
    /\ UNCHANGED placeVars
    /\ UNCHANGED mainVars

UpsertMissingSeason(rec) ==
    /\ Cardinality(missing_seasons) < MaxMissing
    /\ LET res == InsertMissingSeason(missing_seasons, seq.missing_seasons, rec)
       IN  /\ missing_seasons' = res.rows
           /\ seq' = [seq EXCEPT !.missing_seasons = res.autoinc]
    /\ last' = LastOp("UpsertMissingSeason", NoRecord, FALSE, 0, 0, 0, FALSE)
    /\ UNCHANGED <<media_records, missing_episodes, target_seasons, tmdb_seasons>>
    /\ UNCHANGED placeVars
    /\ UNCHANGED mainVars

UpsertMissingEpisode(rec) ==
    /\ Cardinality(missing_episodes) < MaxMissing
    /\ LET res == InsertMissingEpisode(missing_episodes, seq.missing_episodes, rec)
       IN  /\ missing_episodes' = res.rows
           /\ seq' = [seq EXCEPT !.missing_episodes = res.autoinc]
    /\ last' = LastOp("UpsertMissingEpisode", NoRecord, FALSE, 0, 0, 0, FALSE)
    /\ UNCHANGED <<media_records, missing_seasons, target_seasons, tmdb_seasons>>
    /\ UNCHANGED placeVars
    /\ UNCHANGED mainVars

UpdateStatus(table, id, status) ==
    /\ IF table = "missing_seasons"
       THEN missing_seasons' = UpdateMissingItemStatus(missing_seasons, id, status) /\ UNCHANGED missing_episodes
       ELSE missing_episodes' = UpdateMissingItemStatus(missing_episodes, id, status) /\ UNCHANGED missing_seasons
    /\ last' = LastOp("UpdateStatus", NoRecord, FALSE, 0, 0, 0, FALSE)
    /\ UNCHANGED <<media_records, seq, target_seasons, tmdb_seasons>>
    /\ UNCHANGED placeVars
    /\ UNCHANGED mainVars

\* tmdb.GetTVShowSeasons answers with tmdb_seasons, GetExistingSeasons with target_seasons
DetectMissing(rec) ==
    /\ rec.TMDbID # ""
    /\ LET existingSeasons == target_seasons
           totalSeasons == tmdb_seasons
           miss == RecordMissingSeasons(missing_seasons, seq.missing_seasons, rec, existingSeasons, 1, totalSeasons)
           flagged == [rec EXCEPT !.IsComplete = IsCompleteFlag(existingSeasons, totalSeasons)]
           res == InsertOrUpdateMediaRecord(media_records, seq.media_records, flagged)
       IN  /\ Cardinality(miss.rows) <= MaxMissing
           /\ UpsertInBounds(media_records, flagged)
           /\ missing_seasons' = miss.rows
           /\ media_records' = res.rows
           /\ seq' = [seq EXCEPT !.missing_seasons = miss.autoinc, !.media_records = res.autoinc]
           /\ last' = LastOp("DetectMissing", rec, res.found, res.id, Cardinality(KeyRows(media_records, rec)), SoleKeyVersion(media_records, rec), RowById(res.rows, res.id).is_complete)
    /\ UNCHANGED <<missing_episodes, target_seasons, tmdb_seasons>>
    /\ UNCHANGED placeVars
    /\ UNCHANGED mainVars

\* tmdb.GetTVShowSeasons failed, or the record has no tmdb id: nothing is written
DetectMissingAbandoned(rec) ==
    /\ last.op # "DetectMissingAbandoned"
    /\ last' = LastOp("DetectMissingAbandoned", rec, FALSE, 0, 0, 0, FALSE)
    /\ UNCHANGED <<media_records, missing_seasons, missing_episodes, seq, target_seasons, tmdb_seasons>>
    /\ UNCHANGED placeVars
    /\ UNCHANGED mainVars

\* the catalog under UpsertCatalog
Next ==
    \/ \E rec \in MediaRecord : UpsertCatalog(rec)

Spec == Init /\ [][Next]_vars

\* a placement or the user changes the season directories under the target path
TargetSeasonsChange(seasons) ==
    /\ seasons # target_seasons
    /\ target_seasons' = seasons
    /\ last' = LastOp("TargetSeasonsChange", NoRecord, FALSE, 0, 0, 0, FALSE)
    /\ UNCHANGED <<media_records, missing_seasons, missing_episodes, seq, tmdb_seasons>>
    /\ UNCHANGED placeVars
    /\ UNCHANGED mainVars

\* one series title: the catalog write of ClassifyAndMove, the completeness
\* tracker that follows it, and the target directory changing between runs
NextDetect ==
    \/ \E rec \in DetectRecord : UpsertCatalog(rec)
    \/ \E seasons \in SeasonLists : TargetSeasonsChange(seasons)
    \/ \E rec \in DetectRecord : DetectMissing(rec)
    \/ \E rec \in DetectRecord : DetectMissingAbandoned(rec)

\* the season directories under the title's target path are whatever the run
\* finds; the Metadata Service reports one season total for the series
InitDetect ==
    /\ media_records = {}
    /\ missing_seasons = {}
    /\ missing_episodes = {}
    /\ seq = [media_records |-> 0, missing_seasons |-> 0, missing_episodes |-> 0]
    /\ target_seasons \in SeasonLists
    /\ tmdb_seasons \in 0..MaxTotal
    /\ last = Opened
    /\ source = Absent
    /\ target = Absent
    /\ media_name = <<>>
    /\ run = NoRun
    /\ procs = [p \in Procs |-> NotStarted]
    /\ lock_file = FALSE
    /\ classified = Unclassified
    /\ queried = NoQuery

SpecDetect == InitDetect /\ [][NextDetect]_vars

\* the missing-item tables under their three operations
NextMissing ==
    \/ \E rec \in MissingSeason : UpsertMissingSeason(rec)
    \/ \E rec \in MissingEpisode : UpsertMissingEpisode(rec)
    \/ \E table \in Tables, id \in 1..MaxMissing, status \in Statuses : UpdateStatus(table, id, status)

SpecMissing == Init /\ [][NextMissing]_vars

----------------------------------------------------------------------------
(* ClassifyAndMove on one media directory *)

\* what an entry of a name can be
EntryKinds(name) == IF name \in {NameSeason1, NameHanSeason1} THEN {"dir"} ELSE IF name = NameSeason2 THEN {"dir", "file"} ELSE {"file"}

\* a file with content `data', or a season directory of DirFiles such files
Node(kind, data) == IF kind = "dir" THEN Dir([n \in EpisodeNames |-> File(data)]) ELSE File(data)

\* the directories that hold at least the entries `must', all content being `data'
Trees(must, data) ==
    UNION {{Dir([n \in S |-> Node(k[n], data)]) : k \in {c \in [S -> {"dir", "file"}] : \A n \in S : c[n] \in EntryKinds(n)}} : S \in {T \in SUBSET EntryNames : must \subseteq T}}

\* the NFO file of the run: unresolved, a domestic movie, a documentary
\* series without a TMDb id, with one the Metadata Service knows, and with
\* one for which its calls fail
Nfos ==
    {[Resolved |-> FALSE, IsTVShow |-> FALSE, TMDbID |-> "", Country |-> <<>>, Genres |-> <<>>],
     [Resolved |-> TRUE, IsTVShow |-> FALSE, TMDbID |-> "tm1", Country |-> <<CountryText.Zhongguo>>, Genres |-> <<GenreText.Drama>>],
     [Resolved |-> TRUE, IsTVShow |-> TRUE, TMDbID |-> "", Country |-> <<CountryText.Zhongguo>>, Genres |-> <<GenreText.Jilupian>>],
     [Resolved |-> TRUE, IsTVShow |-> TRUE, TMDbID |-> "tm1", Country |-> <<CountryText.Zhongguo>>, Genres |-> <<GenreText.Jilupian>>],
     [Resolved |-> TRUE, IsTVShow |-> TRUE, TMDbID |-> "tm404", Country |-> <<CountryText.Zhongguo>>, Genres |-> <<GenreText.Jilupian>>]}

IOs == [xdev : BOOLEAN, failAt : 0..MaxFailAt]

\* line 119: the category DetermineCategory gives the title of each NFO file
CategoryOf == [nfo \in Nfos |-> DetermineCategory(nfo.Country, nfo.IsTVShow, nfo.Genres).category]

\* a check that takes no directory for a project directory
isProjectDirectory_Never(dirPath) == FALSE

\* os.Stat finds one of the project files in dirPath
isProjectDirectory(dirPath) == \E name \in DOMAIN dirPath.entries : name \in ProjectFileNames

\* tmdb.GetTVShowSeasons: the season total of the series, or an error
GetTVShowSeasons(tmdbID) == IF tmdbID = "tm404" THEN [err |-> TRUE, total |-> 0] ELSE [err |-> FALSE, total |-> tmdb_seasons]

\* checkSeasonCompleteness: the error of the service call, or whether no
\* season of 1..totalSeasons is missing from existingSeasons
checkSeasonCompleteness(tmdbID, existingSeasons) ==
    [err |-> GetTVShowSeasons(tmdbID).err,
     isComplete |-> ~GetTVShowSeasons(tmdbID).err /\ \A i \in 1..GetTVShowSeasons(tmdbID).total : InList(existingSeasons, i)]

\* the status line ReportSeasonStatus logs, "unknown" when checkSeasonCompleteness failed
ReportSeasonStatus(tmdbID, targetMediaPath) ==
    IF checkSeasonCompleteness(tmdbID, GetExistingSeasons(targetMediaPath)).err THEN "unknown"
    ELSE IF checkSeasonCompleteness(tmdbID, GetExistingSeasons(targetMediaPath)).isComplete THEN "complete"
    ELSE "incomplete"

\* the first catalog row of a series with this title and year, as a record; NoRecord when there is none
getExistingTVShowRecord(rows, title, year) ==
    LET matches == {r \in rows : Contains(r.category, Show) /\ r.title = title /\ r.year = year}
    IN  IF matches = {} THEN NoRecord
        ELSE LET r == QueryRow(matches)
             IN  [ID |-> r.id, Title |-> r.title, Year |-> r.year, Season |-> r.season, Category |-> r.category, Version |-> r.version, IsComplete |-> r.is_complete, TMDbID |-> ""]

\* the record ClassifyAndMove writes for the title "T1" of 2002 under the
\* category of line 119: the row it found, refreshed, or a new one
RecordOf(rows, nfo) ==
    LET category == CategoryOf[nfo]
        existing == IF nfo.IsTVShow THEN getExistingTVShowRecord(rows, "T1", "2002") ELSE NoRecord
    IN  IF existing = NoRecord
        THEN [ID |-> 0, Title |-> "T1", Year |-> "2002", Season |-> "", Category |-> category, Version |-> 0, IsComplete |-> FALSE, TMDbID |-> nfo.TMDbID]
        ELSE [existing EXCEPT !.Category = category, !.TMDbID = nfo.TMDbID]

\* DetectMissingSeasonsAndEpisodes(mediaRecord) on the store `st' with the directory targetMediaPath
DetectMissingSeasonsAndEpisodes(st, mediaRecord, targetMediaPath, totalSeasons) ==
    LET existingSeasons == GetExistingSeasons(targetMediaPath)
        miss == RecordMissingSeasons(st.missing, st.seq.missing_seasons, mediaRecord, existingSeasons, 1, totalSeasons)
        res == InsertOrUpdateMediaRecord(st.media, st.seq.media_records, [mediaRecord EXCEPT !.IsComplete = IsCompleteFlag(existingSeasons, totalSeasons)])
    IN  [media |-> res.rows, missing |-> miss.rows, seq |-> [st.seq EXCEPT !.missing_seasons = miss.autoinc, !.media_records = res.autoinc]]

\* the store after the catalog write for mediaRecord
Written(mediaRecord) ==
    LET written == InsertOrUpdateMediaRecord(media_records, seq.media_records, mediaRecord)
    IN  [media |-> written.rows, missing |-> missing_seasons, seq |-> [seq EXCEPT !.media_records = written.autoinc]]

\* what the run did after the placement: whether the detection of missing
\* seasons ran or was abandoned, the flag it wrote, and the status reported
Tracked(nfo, placed) ==
    IF placed.outcome \notin {"moved", "merged"}
    THEN [steps |-> <<"classify", "place">>, detect |-> "none", flag |-> FALSE, report |-> "none"]
    ELSE IF ~nfo.IsTVShow \/ nfo.TMDbID = ""
    THEN [steps |-> <<"classify", "place", "write">>, detect |-> "none", flag |-> FALSE, report |-> "none"]
    ELSE [steps |-> <<"classify", "place", "write", "detect", "report">>,
          detect |-> IF GetTVShowSeasons(nfo.TMDbID).err THEN "failed" ELSE "done",
          flag |-> ~GetTVShowSeasons(nfo.TMDbID).err /\ IsCompleteFlag(GetExistingSeasons(placed.target), GetTVShowSeasons(nfo.TMDbID).total),
          report |-> ReportSeasonStatus(nfo.TMDbID, placed.target)]

\* the record of a run on nfo that classified the title and got as far as `tracked' says
RunOf(nfo, io, placed, tracked) ==
    [outcome |-> placed.outcome, isTVShow |-> nfo.IsTVShow, xdev |-> io.xdev, seasonsToAdd |-> placed.seasonsToAdd,
     failed |-> placed.failed, skipped |-> placed.skipped, source0 |-> source, target0 |-> target,
     category |-> CategoryOf[nfo], tmdbID |-> nfo.TMDbID,
     steps |-> tracked.steps, detect |-> tracked.detect, flag |-> tracked.flag, report |-> tracked.report]

\* a run that writes the catalog whatever the placement came to
Recorded_WriteAlways(nfo, io, placed, end) ==
    /\ source' = placed.source
    /\ target' = placed.target
    /\ run' = RunOf(nfo, io, placed, Tracked(nfo, placed))
    /\ Cardinality(end.media) <= MaxRows
    /\ \A r \in end.media : r.version <= MaxVersion
    /\ Cardinality(end.missing) <= MaxMissing
    /\ media_records' = end.media
    /\ missing_seasons' = end.missing
    /\ seq' = end.seq
    /\ last' = LastOp("ClassifyAndMove", NoRecord, FALSE, 0, 0, 0, FALSE)
    /\ UNCHANGED <<missing_episodes, target_seasons, tmdb_seasons>>
    /\ UNCHANGED <<media_name, mainVars>>

\* lines 312 to 331: after a placement that moved or merged, the catalog
\* write and, for a series with a TMDb id, the detection of missing seasons
\* leave the store `end'; a placement that skipped or failed has returned before
Recorded(nfo, io, placed, end) ==
    /\ source' = placed.source
    /\ target' = placed.target
    /\ run' = RunOf(nfo, io, placed, Tracked(nfo, placed))
    /\ IF placed.outcome \in {"moved", "merged"}
       THEN /\ Cardinality(end.media) <= MaxRows
            /\ \A r \in end.media : r.version <= MaxVersion
            /\ Cardinality(end.missing) <= MaxMissing
            /\ media_records' = end.media
            /\ missing_seasons' = end.missing
            /\ seq' = end.seq
            /\ last' = LastOp("ClassifyAndMove", NoRecord, FALSE, 0, 0, 0, FALSE)
            /\ UNCHANGED <<missing_episodes, target_seasons, tmdb_seasons>>
       ELSE UNCHANGED storeVars
    /\ UNCHANGED <<media_name, mainVars>>

\* a run that drops its catalog write when tmdb.GetTVShowSeasons fails
PlacedAndRecorded_FailureDropsWrite(nfo, io, mediaRecord, placed) ==
    Recorded(nfo, io, placed, IF nfo.IsTVShow /\ nfo.TMDbID # "" /\ ~GetTVShowSeasons(nfo.TMDbID).err
                              THEN DetectMissingSeasonsAndEpisodes(Written(mediaRecord), mediaRecord, placed.target, GetTVShowSeasons(nfo.TMDbID).total)
                              ELSE IF nfo.IsTVShow /\ nfo.TMDbID # ""
                              THEN [media |-> media_records, missing |-> missing_seasons, seq |-> seq]
                              ELSE Written(mediaRecord))

\* the run from the placement on, mediaRecord being the record it writes;
\* the detection is abandoned when tmdb.GetTVShowSeasons fails
PlacedAndRecorded(nfo, io, mediaRecord, placed) ==
    Recorded(nfo, io, placed, IF nfo.IsTVShow /\ nfo.TMDbID # "" /\ ~GetTVShowSeasons(nfo.TMDbID).err
                              THEN DetectMissingSeasonsAndEpisodes(Written(mediaRecord), mediaRecord, placed.target, GetTVShowSeasons(nfo.TMDbID).total)
                              ELSE Written(mediaRecord))

\* the return at line 125: the category is determined and the directory is a project directory
SkippedProject(nfo) ==
    /\ run' = RunOf(nfo, [xdev |-> FALSE, failAt |-> 0], Placed("skipped: project", source, target, <<>>, {}, {}),
                    [steps |-> <<"classify">>, detect |-> "none", flag |-> FALSE, report |-> "none"])
    /\ UNCHANGED <<storeVars, source, target, media_name, mainVars>>

\* one run of ClassifyAndMove on the NFO file of `source': the returns before
\* the classification (the NFO file cannot be parsed, as when a run before
\* has moved it away, or it is not resolved), the classification, the return
\* for a project directory, the placement, the catalog write, the detection
\* of missing seasons and the status report
ClassifyAndMove(nfo, io) ==
    IF source.kind # "dir" \/ Entry(source, NameNfo).kind # "file" \/ ~nfo.Resolved
    THEN /\ ~nfo.Resolved
         /\ io = [xdev |-> FALSE, failAt |-> 0]
         /\ run' = [NoRun EXCEPT !.outcome = "unprocessed", !.source0 = source, !.target0 = target]
         /\ UNCHANGED <<storeVars, source, target, media_name, mainVars>>
    ELSE IF isProjectDirectory(source)
    THEN io = [xdev |-> FALSE, failAt |-> 0] /\ SkippedProject(nfo)
    ELSE PlacedAndRecorded(nfo, io, RecordOf(media_records, nfo), PlaceMedia(source, media_name, target, nfo.IsTVShow, io))

NextPlace ==
    \/ \E nfo \in Nfos, io \in IOs : ClassifyAndMove(nfo, io)

\* a media directory with its NFO file under the watch directory, whatever
\* stands at its target path, an empty catalog, and a service that reports
\* MaxTotal seasons for the series; the directory's own name carries a season
\* only where the code reads it, when the directory has no season subdirectory
InitPlace ==
    /\ media_records = {}
    /\ missing_seasons = {}
    /\ missing_episodes = {}
    /\ seq = [media_records |-> 0, missing_seasons |-> 0, missing_episodes |-> 0]
    /\ target_seasons = <<>>
    /\ tmdb_seasons = MaxTotal
    /\ last = Opened
    /\ source \in UNION {{t, WithEntry(t, NameReadme, File("source"))} : t \in {t \in Trees({NameNfo}, "source") : Entry(t, NameSeason2).kind # "file"}}
    /\ target \in Trees({}, "target") \cup {Absent}
    /\ media_name \in {name \in MediaNames : SeasonNumberOf[name] > 0 => SeasonNumbers(source, ReadDir(source)) = <<>>}
    /\ run = NoRun
    /\ procs = [p \in Procs |-> NotStarted]
    /\ lock_file = FALSE
    /\ classified = Unclassified
    /\ queried = NoQuery

SpecPlace == InitPlace /\ [][NextPlace]_vars

----------------------------------------------------------------------------
(* The classifier and the processes of the program as state machines *)

\* the call of DetermineCategory with the countries, the series flag and the genres of the title
Classify ==
    /\ ~classified.called
    /\ classified' = [classified EXCEPT !.called = TRUE, !.result = DetermineCategory(classified.countries, classified.isTVShow, classified.genres)]
    /\ UNCHANGED <<storeVars, placeVars, procs, lock_file, queried>>

NextClassify ==
    \/ Classify

\* a title with its countries, series flag and genres, not yet classified
InitClassify ==
    /\ media_records = {}
    /\ missing_seasons = {}
    /\ missing_episodes = {}
    /\ seq = [media_records |-> 0, missing_seasons |-> 0, missing_episodes |-> 0]
    /\ target_seasons = <<>>
    /\ tmdb_seasons = 0
    /\ last = Opened
    /\ source = Absent
    /\ target = Absent
    /\ media_name = <<>>
    /\ run = NoRun
    /\ procs = [p \in Procs |-> NotStarted]
    /\ lock_file = FALSE
    /\ classified \in [called : {FALSE}, countries : SeqUpTo(CountryTexts, MaxCountries), isTVShow : BOOLEAN, genres : SeqUpTo(GenreTexts, MaxGenres), result : {NoCountryError}]
    /\ queried = NoQuery

SpecClassify == InitClassify /\ [][NextClassify]_vars

Exited(proc, exit) == [proc EXCEPT !.pc = "exited", !.exit = exit]

\* main up to the loop over the NFO files: `titles' are the NFO files that
\* findNFOFiles returns (the one of -nfo), each with what will go wrong with it
main(p, cmd, titles, openFails, scrapeFails) ==
    /\ procs[p].pc = "idle"
    /\ cmd \in {"config", "usage"} => titles = <<>>
    /\ cmd = "nfo" => Len(titles) = 1
    /\ scrapeFails => cmd = "scrape" /\ titles = <<>>
    /\ lock_file' = (lock_file \/ ~openFails)
    /\ LET started == [NotStarted EXCEPT !.pc = "running", !.cmd = cmd, !.titles = titles]
       IN  procs' = [procs EXCEPT ![p] =
                IF ~ensureSingleProcess(openFails) THEN Exited(started, "already running")
                ELSE IF cmd \in {"config", "usage"} THEN Exited(started, "done")
                ELSE IF scrapeFails THEN Exited(started, "scrape failed")
                ELSE IF titles = <<>> THEN Exited(started, "no nfo file")
                ELSE started]
    /\ UNCHANGED <<storeVars, placeVars, classified, queried>>

\* one round of the loop over the NFO files: that of handleScrape goes on to
\* the next file after an error, handleSingleNFO, which handleMovieDir calls
\* in its loop, ends the process with os.Exit(1)
HandleTitle(p) ==
    /\ procs[p].pc = "running"
    /\ LET proc == procs[p]
           handled == [proc EXCEPT !.handled = @ \cup {proc.next}, !.next = @ + 1]
       IN  procs' = [procs EXCEPT ![p] =
                IF proc.cmd # "scrape" /\ proc.titles[proc.next] # "none" THEN Exited(handled, "title failed")
                ELSE IF proc.next = Len(proc.titles) THEN Exited(handled, "done")
                ELSE handled]
    /\ UNCHANGED <<storeVars, placeVars, lock_file, classified, queried>>

NextMain ==
    \/ \E p \in Procs, cmd \in Commands, titles \in SeqUpTo(TitleFaults, MaxTitles), openFails \in BOOLEAN, scrapeFails \in BOOLEAN :
            main(p, cmd, titles, openFails, scrapeFails)
    \/ \E p \in Procs : HandleTitle(p)

SpecMain == Init /\ [][NextMain]_vars

----------------------------------------------------------------------------
(* The queries of the store *)

\* the characters of a title
TitleText == [T1 |-> <<"T", "1">>, T2 |-> <<"T", "2">>]

\* SQLite: s LIKE '%' || sub || '%'  (LIKE folds ASCII case)
LikeContains(s, sub) == \E i \in 0..(Len(s) - Len(sub)) : \A j \in 1..Len(sub) : ToLower(s[i + j]) = ToLower(sub[j])

\* a row of media_records with its columns tmdb_id, processed_at and updated_at
StampedRow(row, tmdb_id, processed_at, updated_at) ==
    [id |-> row.id, title |-> row.title, year |-> row.year, season |-> row.season, category |-> row.category, version |-> row.version,
     is_complete |-> row.is_complete, tmdb_id |-> tmdb_id, processed_at |-> processed_at, updated_at |-> updated_at]

\* the rows `res' of InsertOrUpdateMediaRecord(rows, autoinc, rec) at the time
\* now: the INSERT binds now to processed_at and to updated_at, the UPDATE
\* sets updated_at and leaves processed_at
StampedRows(res, rec, now) ==
    {IF "tmdb_id" \in DOMAIN r
     THEN IF r.id = res.id THEN [r EXCEPT !.tmdb_id = rec.TMDbID, !.updated_at = now] ELSE r
     ELSE StampedRow(r, rec.TMDbID, now, now) : r \in res.rows}

\* InsertOrUpdateMediaRecord(rec) at the time now on the table st
InsertOrUpdateMediaRecordAt(st, rec, now) ==
    [rows |-> StampedRows(InsertOrUpdateMediaRecord(st.rows, st.autoinc, rec), rec, now),
     autoinc |-> InsertOrUpdateMediaRecord(st.rows, st.autoinc, rec).autoinc]

\* the rows in rowid order, as the scan of a table returns them
RECURSIVE RowsInOrder(_)
RowsInOrder(rows) ==
    IF rows = {} THEN <<>>
    ELSE <<QueryRow(rows)>> \o RowsInOrder(rows \ {QueryRow(rows)})

\* rows.Scan and the conversion of the row to a MediaRecord
ScanMediaRecord(row) ==
    [ID |-> row.id, Title |-> row.title, Year |-> row.year, Season |-> row.season, Category |-> row.category, Version |-> row.version,
     IsComplete |-> row.is_complete, TMDbID |-> row.tmdb_id, ProcessedAt |-> row.processed_at, UpdatedAt |-> row.updated_at]

\* a key of the filter map holds a text that is not the empty string
HasText(key) == key # <<>> /\ key[1] # <<>>

\* the key tmdb_id of the filter map holds an id that is not the empty string
HasID(key) == key # <<>> /\ key[1] # ""

\* SELECT ... FROM media_records with the conditions for the keys title, is_complete and category
GetMediaRecords(rows, filter) ==
    [k \in 1..Cardinality({r \in rows : /\ HasText(filter.title) => LikeContains(TitleText[r.title], filter.title[1])
                                        /\ filter.is_complete # <<>> => r.is_complete = filter.is_complete[1]
                                        /\ HasText(filter.category) => LikeContains(r.category, filter.category[1])}) |->
        ScanMediaRecord(RowsInOrder({r \in rows : /\ HasText(filter.title) => LikeContains(TitleText[r.title], filter.title[1])
                                                  /\ filter.is_complete # <<>> => r.is_complete = filter.is_complete[1]
                                                  /\ HasText(filter.category) => LikeContains(r.category, filter.category[1])})[k])]

\* SELECT ... FROM missing_seasons WHERE status = 'missing' with the conditions for the keys title and tmdb_id
GetMissingSeasons(rows, filter) ==
    RowsInOrder({r \in rows : /\ r.status = "missing"
                              /\ HasText(filter.title) => LikeContains(TitleText[r.title], filter.title[1])
                              /\ HasID(filter.tmdb_id) => r.tmdb_id = filter.tmdb_id[1]})

\* SELECT ... FROM missing_episodes WHERE status = 'missing' with the conditions for the keys title, tmdb_id and season
GetMissingEpisodes(rows, filter) ==
    RowsInOrder({r \in rows : /\ r.status = "missing"
                              /\ HasText(filter.title) => LikeContains(TitleText[r.title], filter.title[1])
                              /\ HasID(filter.tmdb_id) => r.tmdb_id = filter.tmdb_id[1]
                              /\ (filter.season # <<>> /\ filter.season[1] > 0) => r.season = filter.season[1]})

\* the filter maps of the queries: a part of a title in either case, a part
\* of a category tag in lower case, a flag, a tmdb id, a season number
Filters ==
    [title : {<<>>, <<<<"T">>>>, <<<<"t", "1">>>>}, category : {<<>>, <<<<"s", "h", "o", "w">>>>}, is_complete : {<<>>, <<TRUE>>, <<FALSE>>},
     tmdb_id : {<<>>, <<"tm1">>}, season : {<<>>, <<1>>}]

\* the records the catalog of the queries was written with: films and series
\* of season 1, without a tmdb id and incomplete or with one and complete
QueryRecords ==
    {[ID |-> 0, Title |-> title, Year |-> "2002", Season |-> IF isTVShow THEN "1" ELSE "", Category |-> IF isTVShow THEN CategoryJlShow ELSE CategoryCnMovie,
      Version |-> 0, IsComplete |-> known, TMDbID |-> IF known THEN "tm1" ELSE "", ProcessedAt |-> 0] : title \in Titles, isTVShow \in BOOLEAN, known \in BOOLEAN}

QueryMissingSeason == [MediaID : {0}, Title : Titles, TMDbID : {"tm1", "tm2"}, Season : 1..MaxTotal]

QueryMissingEpisode == [MediaID : {0}, Title : {"T1"}, TMDbID : {"tm1", "tm2"}, Season : 1..MaxTotal, Episode : {1}]

NoRows == [rows |-> {}, autoinc |-> 0]

\* the catalogs that up to n calls of InsertOrUpdateMediaRecord leave
RECURSIVE CatalogTables(_)
CatalogTables(n) ==
    IF n = 0 THEN {NoRows}
    ELSE {NoRows} \cup {InsertOrUpdateMediaRecordAt(st, rec, 0) : st \in CatalogTables(n - 1), rec \in QueryRecords}

\* the tables that up to n calls of InsertMissingSeason leave
RECURSIVE MissingSeasonTables(_)
MissingSeasonTables(n) ==
    IF n = 0 THEN {NoRows}
    ELSE {NoRows} \cup {InsertMissingSeason(st.rows, st.autoinc, rec) : st \in MissingSeasonTables(n - 1), rec \in QueryMissingSeason}

\* the tables that up to n calls of InsertMissingEpisode leave
RECURSIVE MissingEpisodeTables(_)
MissingEpisodeTables(n) ==
    IF n = 0 THEN {NoRows}
    ELSE {NoRows} \cup {InsertMissingEpisode(st.rows, st.autoinc, rec) : st \in MissingEpisodeTables(n - 1), rec \in QueryMissingEpisode}

\* the stores the queries run on: one of the three tables has rows
QueryStores ==
    {[media |-> st, seasons |-> NoRows, episodes |-> NoRows] : st \in CatalogTables(MaxRows)}
        \cup {[media |-> NoRows, seasons |-> st, episodes |-> NoRows] : st \in MissingSeasonTables(MaxMissing)}
        \cup {[media |-> NoRows, seasons |-> NoRows, episodes |-> st] : st \in MissingEpisodeTables(MaxMissing)}

\* the inputs of a query, or the record and the time of a catalog write that is read back
QueryInputs ==
    {[NoQuery EXCEPT !.filter = filter] : filter \in Filters}
        \cup {[NoQuery EXCEPT !.rec = [rec EXCEPT !.ProcessedAt = at[1]], !.now = at[2]] :
                 rec \in QueryRecords, at \in {at \in (0..MaxClock) \X (1..MaxClock) : at[1] <= at[2]}}

\* GetMediaRecords(filter)
QueryCatalog ==
    /\ queried.op = "none"
    /\ queried.rec = NoRecord
    /\ queried' = [queried EXCEPT !.op = "QueryCatalog", !.result = GetMediaRecords(media_records, queried.filter)]
    /\ UNCHANGED <<storeVars, placeVars, procs, lock_file, classified>>

\* GetMissingSeasons(filter)
QueryMissingSeasons ==
    /\ queried.op = "none"
    /\ queried.rec = NoRecord
    /\ queried' = [queried EXCEPT !.op = "QueryMissingSeasons", !.result = GetMissingSeasons(missing_seasons, queried.filter)]
    /\ UNCHANGED <<storeVars, placeVars, procs, lock_file, classified>>

\* GetMissingEpisodes(filter)
QueryMissingEpisodes ==
    /\ queried.op = "none"
    /\ queried.rec = NoRecord
    /\ queried' = [queried EXCEPT !.op = "QueryMissingEpisodes", !.result = GetMissingEpisodes(missing_episodes, queried.filter)]
    /\ UNCHANGED <<storeVars, placeVars, procs, lock_file, classified>>

\* InsertOrUpdateMediaRecord(queried.rec) at the time queried.now
UpsertCatalogAt ==
    /\ queried.op = "none"
    /\ queried.rec # NoRecord
    /\ UpsertInBounds(media_records, queried.rec)
    /\ media_records' = InsertOrUpdateMediaRecordAt([rows |-> media_records, autoinc |-> seq.media_records], queried.rec, queried.now).rows
    /\ seq' = [seq EXCEPT !.media_records = InsertOrUpdateMediaRecordAt([rows |-> media_records, autoinc |-> seq.media_records], queried.rec, queried.now).autoinc]
    /\ queried' = [queried EXCEPT !.op = IF ExistingQuery(media_records, queried.rec) = {} THEN "inserted" ELSE "updated"]
    /\ UNCHANGED <<missing_seasons, missing_episodes, target_seasons, tmdb_seasons, last>>
    /\ UNCHANGED <<placeVars, procs, lock_file, classified>>

\* GetMediaRecords with the title of the record that was just inserted
ReadBack ==
    /\ queried.op = "inserted"
    /\ queried' = [queried EXCEPT !.op = "ReadBack", !.filter = [EmptyFilter EXCEPT !.title = <<TitleText[queried.rec.Title]>>],
                                  !.result = GetMediaRecords(media_records, [EmptyFilter EXCEPT !.title = <<TitleText[queried.rec.Title]>>])]
    /\ UNCHANGED <<storeVars, placeVars, procs, lock_file, classified>>

NextQuery ==
    \/ QueryCatalog
    \/ QueryMissingSeasons
    \/ QueryMissingEpisodes
    \/ UpsertCatalogAt
    \/ ReadBack

\* a store with rows in one of its tables, and the inputs of one query or of
\* one catalog write, whose clock is not before the record's processing time
InitQuery ==
    /\ \E st \in QueryStores :
          /\ media_records = st.media.rows
          /\ missing_seasons = st.seasons.rows
          /\ missing_episodes = st.episodes.rows
          /\ seq = [media_records |-> st.media.autoinc, missing_seasons |-> st.seasons.autoinc, missing_episodes |-> st.episodes.autoinc]
    /\ target_seasons = <<>>
    /\ tmdb_seasons = 0
    /\ last = Opened
    /\ source = Absent
    /\ target = Absent
    /\ media_name = <<>>
    /\ run = NoRun
    /\ procs = [p \in Procs |-> NotStarted]
    /\ lock_file = FALSE
    /\ classified = Unclassified
    /\ queried \in {q \in QueryInputs : q.rec # NoRecord => (missing_seasons = {} /\ missing_episodes = {})}

SpecQuery == InitQuery /\ [][NextQuery]_vars

----------------------------------------------------------------------------
(* MoveDirectory on its own *)

\* the entries of the directory that is moved
MaxMoveEntries == 3

\* the last system call of a move that may fail, which is the os.RemoveAll of
\* the largest move: os.Rename, os.MkdirAll and os.ReadDir for the directory
\* and for its subdirectory, a copyFile for each file, and two os.RemoveAll
MaxMoveFailAt == 3 + (3 + DirFiles + 1) + (MaxMoveEntries - 1) + 1

\* the directories MoveDirectory is called on: up to MaxMoveEntries entries, one subdirectory at most
MoveSources ==
    {t \in Trees({}, "source") :
        /\ Cardinality(DOMAIN t.entries) <= MaxMoveEntries
        /\ Cardinality({name \in DOMAIN t.entries : t.entries[name].kind = "dir"}) <= 1}

\* what stands at the destination path: nothing, or a directory with one entry at most
MoveTargets == {Absent} \cup {t \in Trees({}, "target") : Cardinality(DOMAIN t.entries) <= 1}

\* the run of MoveDirectory(src, dst) that left `moved'
MoveRun(io, moved) ==
    [NoRun EXCEPT !.outcome = IF moved.err THEN "error" ELSE "moved", !.xdev = io.xdev, !.source0 = source, !.target0 = target]

\* one call of MoveDirectory(src, dst)
MoveOnce(io) ==
    /\ run.outcome = "none"
    /\ source' = MoveDirectory(source, target, 0, io).src
    /\ target' = MoveDirectory(source, target, 0, io).dst
    /\ run' = MoveRun(io, MoveDirectory(source, target, 0, io))
    /\ UNCHANGED <<storeVars, media_name, mainVars>>

NextMove ==
    \/ \E io \in [xdev : BOOLEAN, failAt : 0..MaxMoveFailAt] : MoveOnce(io)

\* a directory at the source path and whatever stands at the destination path
InitMove ==
    /\ media_records = {}
    /\ missing_seasons = {}
    /\ missing_episodes = {}
    /\ seq = [media_records |-> 0, missing_seasons |-> 0, missing_episodes |-> 0]
    /\ target_seasons = <<>>
    /\ tmdb_seasons = 0
    /\ last = Opened
    /\ source \in MoveSources
    /\ target \in MoveTargets
    /\ media_name = <<>>
    /\ run = NoRun
    /\ procs = [p \in Procs |-> NotStarted]
    /\ lock_file = FALSE
    /\ classified = Unclassified
    /\ queried = NoQuery

SpecMove == InitMove /\ [][NextMove]_vars

----------------------------------------------------------------------------
(* Claims about the catalog repository *)

\* C1: after any sequence of UpsertCatalog calls no two rows of the catalog
\* carry the same (title, year, season): one row per (title, year) among the
\* records upserted with an empty season, one per (title, year, season) among
\* the others, whatever the category tag.
C1_NaturalKeyUnique ==
    \A r \in media_records, q \in media_records : (r.title = q.title /\ r.year = q.year /\ r.season = q.season) => r.id = q.id

\* C2: when exactly one row carries a record's natural key, at version N,
\* two UpsertCatalog calls in succession with that same record leave
\* exactly one row under the key, at version N + 2.
C2_UpsertTwiceOneRow ==
    [][(last.op = "UpsertCatalog" /\ last.keyRows = 1 /\ last'.op = "UpsertCatalog" /\ last'.again)
        => (Cardinality(KeyRows(media_records', last'.rec)) = 1 /\ SoleKeyVersion(media_records', last'.rec) = last.preVersion + 2)]_vars

C4_InsertedVersionIsOne ==
    (last.op = "UpsertCatalog" /\ ~last.found) => RowById(media_records, last.id).version = 1

\* C5: at most one row with status "missing" per (title, tmdb id, season) in
\* missing_seasons and per (title, tmdb id, season, episode) in
\* missing_episodes, in every state UpsertMissingSeason, UpsertMissingEpisode
\* and UpdateStatus can reach.
C5_OneMissingRowPerKey ==
    /\ \A r \in missing_seasons, q \in missing_seasons :
         (r.status = "missing" /\ q.status = "missing" /\ r.title = q.title /\ r.tmdb_id = q.tmdb_id /\ r.season = q.season) => r.id = q.id
    /\ \A r \in missing_episodes, q \in missing_episodes :
         (r.status = "missing" /\ q.status = "missing" /\ r.title = q.title /\ r.tmdb_id = q.tmdb_id /\ r.season = q.season /\ r.episode = q.episode) => r.id = q.id

StatusMissing(rows) == {r \in rows : r.status = "missing"}

----------------------------------------------------------------------------
(* Claims about the processes *)

\* C11: a process that went through a batch of NFO files (-dir or -scrape-*)
\* and ended, after its last file or at a file that failed, has handled
\* every file of the batch.
C11_BatchNeverAborted ==
    \A p \in Procs :
        (procs[p].pc = "exited" /\ procs[p].cmd \in {"dir", "scrape"} /\ procs[p].exit \in {"done", "title failed"})
            => procs[p].handled = 1..Len(procs[p].titles)

\* C12: at most one process is past the single-instance check and running.
C12_SingleInstance ==
    Cardinality({p \in Procs : procs[p].pc = "running"}) <= 1

----------------------------------------------------------------------------
(* Claims about the classifier *)

\* the text holds the word, whatever the case of its letters
HoldsWord(text, word) == \E i \in 0..(Len(text) - Len(word)) : \A j \in 1..Len(word) : ToLower(text[i + j]) = ToLower(word[j])

\* some genre of the sequence holds a word of the list
GenreOfClass(genres, words) == \E g \in 1..Len(genres), w \in 1..Len(words) : HoldsWord(genres[g], words[w])

NoGenreOverride(genres) == ~GenreOfClass(genres, DocumentaryKeywords) /\ ~GenreOfClass(genres, VarietyKeywords) /\ ~GenreOfClass(genres, AnimeKeywords)

Variant(isTVShow, series, movie) == Category(IF isTVShow THEN series ELSE movie)

\* C13: when a genre holds "documentary" in any case, or the Chinese word for
\* it, the result is JlShow, for every country sequence (the empty one
\* included) and both values of the series flag.
C13_DocumentaryWins ==
    (classified.called /\ GenreOfClass(classified.genres, <<<<"d", "o", "c", "u", "m", "e", "n", "t", "a", "r", "y">>, <<"U+7EAA", "U+5F55", "U+7247">>>>))
        => classified.result = Category(CategoryJlShow)

C13_Witness ==
    /\ classified.called
    /\ classified.genres = <<GenreText.Drama, GenreText.Documentary>>
    /\ classified.countries = <<>>
    /\ classified.result = Category(CategoryJlShow)

\* C14 as stated: with an empty country sequence the call fails with the
\* no-country error and returns no category, whatever the genres.
C14_EmptyCountriesAlwaysFail ==
    (classified.called /\ classified.countries = <<>>) => classified.result = NoCountryError

\* C14 amended: with an empty country sequence and no genre of the
\* documentary, variety or animation class, the call fails with the
\* no-country error and returns no category; with such a genre it returns
\* the genre's category without an error.
C14_EmptyCountriesFailWithoutOverride ==
    (classified.called /\ classified.countries = <<>>) =>
        IF NoGenreOverride(classified.genres)
        THEN classified.result = NoCountryError
        ELSE ~classified.result.err /\ classified.result.category \in {CategoryJlShow, CategoryXSShow, CategoryDmShow, CategoryDmMovie}

C14_Witness ==
    /\ classified.called
    /\ classified.countries = <<>>
    /\ classified.genres = <<GenreText.Drama>>
    /\ classified.result = NoCountryError

\* C15: with a country and no genre override, the result is the one the
\* first country alone gives with the same series flag: the entries after the
\* first and the genres change nothing.
C15_FirstCountryOnly ==
    (classified.called /\ classified.countries # <<>> /\ NoGenreOverride(classified.genres))
        => classified.result = DetermineCategory(<<classified.countries[1]>>, classified.isTVShow, <<>>)

C15_Witness ==
    /\ classified.called
    /\ classified.countries = <<CountryText.Germany, CountryText.Japan>>
    /\ classified.isTVShow
    /\ classified.genres = <<GenreText.Drama>>
    /\ classified.result = Category(CategoryEnShow)

\* C16: the result is that of the first class present among documentary,
\* variety, animation, wherever its genre stands in the sequence, and a
\* country tag or the no-country error only when no genre is of a class.
C16_StrictPriority ==
    classified.called =>
        IF GenreOfClass(classified.genres, DocumentaryKeywords) THEN classified.result = Category(CategoryJlShow)
        ELSE IF GenreOfClass(classified.genres, VarietyKeywords) THEN classified.result = Category(CategoryXSShow)
        ELSE IF GenreOfClass(classified.genres, AnimeKeywords) THEN classified.result = Variant(classified.isTVShow, CategoryDmShow, CategoryDmMovie)
        ELSE classified.result.category \notin {CategoryJlShow, CategoryXSShow, CategoryDmShow, CategoryDmMovie}

C16_Witness ==
    /\ classified.called
    /\ classified.genres = <<GenreText.Animation, GenreText.RealityShow>>
    /\ classified.result = Category(CategoryXSShow)

\* C17: with no genre override the first country decides, the rules taken
\* in the claim's order: a first entry that holds a Japan/Korea keyword
\* gives Jp&KrShow or Jp&KrMovie, else one that holds a China/Hong
\* Kong/Taiwan keyword gives CnShow or CnMovie, else EnShow or EnMovie; the
\* series flag alone chooses between Show and Movie.
C17_FirstCountryCategory ==
    (classified.called /\ classified.countries # <<>> /\ NoGenreOverride(classified.genres)) =>
        IF \E w \in 1..Len(JpKrKeywords) : HoldsWord(classified.countries[1], JpKrKeywords[w])
        THEN classified.result = Variant(classified.isTVShow, CategoryJpKrShow, CategoryJpKrMovie)
        ELSE IF \E w \in 1..Len(CnKeywords) : HoldsWord(classified.countries[1], CnKeywords[w])
        THEN classified.result = Variant(classified.isTVShow, CategoryCnShow, CategoryCnMovie)
        ELSE classified.result = Variant(classified.isTVShow, CategoryEnShow, CategoryEnMovie)

C17_Witness ==
    /\ classified.called
    /\ classified.countries = <<CountryText.Riben, CountryText.Zhongguo>>
    /\ classified.isTVShow
    /\ classified.genres = <<>>
    /\ classified.result = Category(CategoryJpKrShow)

----------------------------------------------------------------------------
(* Claims about the placement *)

SeasonSet(seasons) == {seasons[i] : i \in 1..Len(seasons)}

\* what stands at `name' under a path, Absent when the path is no directory
At(node, name) == IF node.kind = "dir" THEN Entry(node, name) ELSE Absent

\* every file that `before' held is in `after', under its name and with its
\* content: the files of the directory itself and of its subdirectories
NothingLost(before, after) ==
    \A name \in DOMAIN before.entries :
        IF before.entries[name].kind = "file"
        THEN At(after, name) = before.entries[name]
        ELSE \A child \in DOMAIN before.entries[name].entries : At(At(after, name), child) = before.entries[name].entries[child]

\* C7: after a merge, (a) a season directory of the source has arrived at the
\* destination only if its season number was absent from the destination's
\* season directories, (b) every season directory the destination had is as
\* it was, and (c) the reported seasons are the seasons of the source that
\* the destination lacked.
C7_MergeOnlyNewSeasons ==
    run.outcome = "merged" =>
        /\ \A name \in DOMAIN run.source0.entries :
             (run.source0.entries[name].kind = "dir" /\ SeasonNumberOf[name] > 0 /\ At(target, name) # At(run.target0, name))
                => SeasonNumberOf[name] \notin SeasonSet(GetExistingSeasons(run.target0))
        /\ \A name \in DOMAIN run.target0.entries :
             (run.target0.entries[name].kind = "dir" /\ SeasonNumberOf[name] > 0) => At(target, name) = run.target0.entries[name]
        /\ SeasonSet(run.seasonsToAdd) = SeasonSet(GetNewSeasons(run.source0, media_name)) \ SeasonSet(GetExistingSeasons(run.target0))

\* C8: after a merge every file the destination held before it, at the top
\* or inside a subdirectory, is still there with its content: nothing that
\* existed at the destination was overwritten or replaced.
C8_MergeNeverOverwrites ==
    run.outcome = "merged" => NothingLost(run.target0, target)

\* C9: when a run failed (it returned an error, or the move of an entry
\* failed during a merge), every file the source directory held is still in
\* the source directory or in the destination, with its content.
C9_FailedRunKeepsMedia ==
    (run.outcome = "error" \/ run.failed # {}) =>
        \A name \in DOMAIN run.source0.entries :
            IF run.source0.entries[name].kind = "file"
            THEN run.source0.entries[name] \in {At(source, name), At(target, name)}
            ELSE \A child \in DOMAIN run.source0.entries[name].entries :
                    run.source0.entries[name].entries[child] \in {At(At(source, name), child), At(At(target, name), child)}

\* C10: after a merge every source entry that the loop skipped is still in
\* the source directory as it was, so the source directory is gone only if
\* no entry was skipped.
C10_SkippedEntriesStay ==
    run.outcome = "merged" => \A name \in run.skipped : At(source, name) = run.source0.entries[name]

\* the run that has just ended got as far as the placement of a resolved title
PlacedTitle == run.outcome \notin {"none", "unprocessed", "skipped: project"}

\* C18: a run on a title that is not a series, whose destination exists,
\* ends as skipped for a duplicate, and the source directory, the destination
\* directory, the catalog rows and the missing-item rows are after it what
\* they were before it.
C18_DuplicateMovieUntouched ==
    [][(PlacedTitle' /\ ~run'.isTVShow /\ target.kind # "absent") =>
          /\ run'.outcome = "skipped: duplicate"
          /\ source' = source
          /\ target' = target
          /\ media_records' = media_records
          /\ missing_seasons' = missing_seasons
          /\ missing_episodes' = missing_episodes]_vars

\* a movie was skipped for a duplicate while the catalog held rows and missing seasons
C18_Witness ==
    /\ run.outcome = "skipped: duplicate"
    /\ ~run.isTVShow
    /\ source = run.source0
    /\ target = run.target0
    /\ media_records # {}
    /\ missing_seasons # {}

\* the run that has just ended was on a series whose destination existed, its
\* reads succeeded, and every season of the source was at the destination
NoNewSeasons ==
    /\ PlacedTitle
    /\ run.isTVShow
    /\ run.outcome # "skipped: seasons unread"
    /\ run.target0.kind # "absent"
    /\ SeasonSet(GetNewSeasons(run.source0, media_name)) \subseteq SeasonSet(GetExistingSeasons(run.target0))

\* C19: (a) a run on a series whose destination exists and has every season
\* of the source ends as skipped for no new seasons with source and
\* destination as they were; (b) a run on the same source directly after a
\* merge, on the same pair of file systems, is such a run: it leaves source
\* and destination as the merge left them.
C19_RerunAfterMergeMovesNothing ==
    [][/\ NoNewSeasons' => (run'.outcome = "skipped: no new seasons" /\ source' = source /\ target' = target)
       /\ (run.outcome = "merged" /\ PlacedTitle' /\ run'.isTVShow /\ run'.xdev = run.xdev) => (source' = source /\ target' = target)]_vars

\* C20: after a run that moved the whole directory to a destination that did
\* not exist, the source path is gone and the destination is the directory
\* the source was, entry for entry, by rename or by copy and delete.
C20_MoveRelocatesWholeSource ==
    run.outcome = "moved" => (run.target0 = Absent /\ source = Absent /\ target = run.source0)

\* a directory with a season subdirectory was moved across file systems
C20_Witness ==
    /\ run.outcome = "moved"
    /\ run.xdev
    /\ \E name \in DOMAIN run.source0.entries : run.source0.entries[name].kind = "dir"
    /\ target = run.source0

----------------------------------------------------------------------------
(* Claims about the completeness tracker *)

\* every season from 1 to totalSeasons has a directory under the target path
AllSeasonsPresent(existingSeasons, totalSeasons) == \A i \in 1..totalSeasons : InList(existingSeasons, i)

\* C21: after DetectMissing has run for a series of which the service
\* reports at least one season, the completeness flag of the catalog row it
\* wrote is true exactly when every season from 1 to the service's total has
\* a directory under the target path.
C21_CompleteIffAllPresent ==
    (last.op = "DetectMissing" /\ tmdb_seasons > 0) => (last.flag <=> AllSeasonsPresent(target_seasons, tmdb_seasons))

\* C28: after DetectMissing has run for a title, a season has a row of
\* status "missing" for the title exactly when it lies between 1 and the
\* service's total and has no directory under the target path.
C28_MissingRowsAreTheAbsentSeasons ==
    last.op = "DetectMissing" =>
        \A i \in 1..MaxTotal :
            (\E r \in StatusMissing(missing_seasons) : r.title = last.rec.Title /\ r.season = i)
                <=> (i <= tmdb_seasons /\ ~InList(target_seasons, i))

\* C29: every row of missing_seasons carries the id of a catalog row of the
\* same title in its media_id.
C29_MissingRowRefersToCatalogRow ==
    \A r \in missing_seasons : \E m \in media_records : m.id = r.media_id /\ m.title = r.title

\* C22: the status ReportSeasonStatus reports after a detection of missing
\* seasons is "complete" exactly when the completeness flag the detection
\* stored is true.
C22_ReportAgreesWithFlag ==
    run.detect = "done" => (run.flag <=> run.report = "complete")

\* the catalog, the missing-season rows or the directories change only in a
\* run whose record says how far it got
RunSteps == <<"classify", "place", "write", "detect", "report">>

\* C23: within one run the steps come in the order classification, placement,
\* catalog write, detection of missing seasons, status report: (a) the steps
\* taken are a prefix of that order, or the classification alone; (b) the
\* directories change only in a run that has determined the category; (c) the
\* catalog and the missing-season rows change only in a run whose placement
\* has ended as moved or merged; (d) the detection sees the directory the
\* placement left: no season recorded missing by the run stands there, and
\* the flag it stored is the one of the seasons standing there.
C23_StepsInOrder ==
    [][/\ \E n \in 0..Len(RunSteps) : run'.steps = SubSeq(RunSteps, 1, n)
       /\ (source' # source \/ target' # target) => (run'.category # <<>> /\ Len(run'.steps) >= 2)
       /\ (media_records' # media_records \/ missing_seasons' # missing_seasons) =>
              (run'.outcome \in {"moved", "merged"} /\ Len(run'.steps) >= 3)
       /\ Len(run'.steps) >= 3 => media_records' # {}
       /\ run'.detect = "done" =>
              /\ \A r \in missing_seasons' \ missing_seasons : ~InList(GetExistingSeasons(target'), r.season)
              /\ run'.flag = IsCompleteFlag(GetExistingSeasons(target'), tmdb_seasons)
              /\ \E m \in media_records' : m.title = "T1" /\ m.is_complete = run'.flag]_vars

\* a series was merged into its destination, the catalog row was written and
\* the detection recorded a season missing
C23_Witness ==
    /\ run.outcome = "merged"
    /\ run.seasonsToAdd # <<>>
    /\ run.steps = RunSteps
    /\ run.detect = "done"
    /\ media_records # {}
    /\ missing_seasons # {}

\* C24: when the season total cannot be fetched during the detection of
\* missing seasons, the run writes no missing-season row, ends as moved or
\* merged and not as an error, leaves the catalog as the catalog write of the
\* run left it, and keeps the placement: the directories are as the placement
\* left them, and a moved directory stands at the destination.
C24_FailedDetectionOnlyAbandonsDetection ==
    [][run'.detect = "failed" =>
          /\ missing_seasons' = missing_seasons
          /\ missing_episodes' = missing_episodes
          /\ run'.outcome \in {"moved", "merged"}
          /\ \E nfo \in Nfos :
                /\ nfo.TMDbID = run'.tmdbID
                /\ nfo.IsTVShow
                /\ media_records' = InsertOrUpdateMediaRecord(media_records, seq.media_records, RecordOf(media_records, nfo)).rows
          /\ run'.outcome = "moved" => (source' = Absent /\ target' = source)
          /\ \E failAt \in 0..MaxFailAt :
                /\ PlaceMedia(source, media_name, target, TRUE, [xdev |-> run'.xdev, failAt |-> failAt]).source = source'
                /\ PlaceMedia(source, media_name, target, TRUE, [xdev |-> run'.xdev, failAt |-> failAt]).target = target']_vars

\* a series was merged with new seasons, and the service failed in the detection
C24_Witness ==
    /\ run.detect = "failed"
    /\ run.outcome = "merged"
    /\ run.seasonsToAdd # <<>>
    /\ media_records # {}
    /\ run.report = "unknown"

\* one of the project files stands in the directory
HoldsProjectFile(dir) == dir.kind = "dir" /\ \E k \in 1..Len(ProjectFiles) : ProjectFiles[k] \in DOMAIN dir.entries

\* a run has ended on a resolved title whose directory holds a project file
ProjectRun == run.outcome \notin {"none", "unprocessed"} /\ HoldsProjectFile(run.source0)

----------------------------------------------------------------------------
(* Claims about the queries of the store *)

\* the records of a result that carry the natural key of rec
ReadWithKey(result, rec) == {result[k] : k \in {k \in 1..Len(result) : result[k].Title = rec.Title /\ result[k].Year = rec.Year /\ result[k].Season = rec.Season}}

\* C26: a record that was inserted and is read back under its natural key
\* comes back once, with every field as it was given, the processing time and
\* the completeness flag among them; the id, the version and the time of the
\* last update are the store's.
C26_InsertedRecordReadBack ==
    queried.op = "ReadBack" =>
        /\ Cardinality(ReadWithKey(queried.result, queried.rec)) = 1
        /\ \A r \in ReadWithKey(queried.result, queried.rec) :
              /\ r.Category = queried.rec.Category
              /\ r.TMDbID = queried.rec.TMDbID
              /\ r.IsComplete = queried.rec.IsComplete
              /\ r.ProcessedAt = queried.rec.ProcessedAt

\* the condition a filter map states for a row: every key that is present holds
RowSatisfies(r, filter) ==
    /\ HasText(filter.title) => LikeContains(TitleText[r.title], filter.title[1])
    /\ ("category" \in DOMAIN r /\ HasText(filter.category)) => LikeContains(r.category, filter.category[1])
    /\ ("is_complete" \in DOMAIN r /\ filter.is_complete # <<>>) => r.is_complete = filter.is_complete[1]
    /\ HasID(filter.tmdb_id) => r.tmdb_id = filter.tmdb_id[1]
    /\ filter.season # <<>> => r.season = IF "status" \in DOMAIN r THEN filter.season[1] ELSE Digits[filter.season[1] + 1]

\* the ids of the rows or records of a result
ResultIDs(result) == {IF "ID" \in DOMAIN result[k] THEN result[k].ID ELSE result[k].id : k \in 1..Len(result)}

\* C27: a query returns exactly the rows of its table that satisfy every key
\* present in the filter map, each row once, and every row for the empty map
\* (of the missing-item tables, every row whose status is "missing").
C27_QueryReturnsExactlyTheMatches ==
    /\ queried.op = "QueryCatalog" =>
          /\ ResultIDs(queried.result) = {r.id : r \in {r \in media_records : RowSatisfies(r, queried.filter)}}
          /\ Len(queried.result) = Cardinality(ResultIDs(queried.result))
    /\ queried.op = "QueryMissingSeasons" =>
          /\ ResultIDs(queried.result) = {r.id : r \in {r \in StatusMissing(missing_seasons) : RowSatisfies(r, queried.filter)}}
          /\ Len(queried.result) = Cardinality(ResultIDs(queried.result))
    /\ queried.op = "QueryMissingEpisodes" =>
          /\ ResultIDs(queried.result) = {r.id : r \in {r \in StatusMissing(missing_episodes) : RowSatisfies(r, queried.filter)}}
          /\ Len(queried.result) = Cardinality(ResultIDs(queried.result))

----------------------------------------------------------------------------
(* Claims about MoveDirectory *)

\* every file that `before' held is in full under its path in src or in dst:
\* the files of the directory itself and of its subdirectories
KeptAt(before, src, dst) ==
    \A name \in DOMAIN before.entries :
        IF before.entries[name].kind = "file"
        THEN At(src, name) = before.entries[name] \/ At(dst, name) = before.entries[name]
        ELSE \A child \in DOMAIN before.entries[name].entries :
                \/ At(At(src, name), child) = before.entries[name].entries[child]
                \/ At(At(dst, name), child) = before.entries[name].entries[child]

\* C30: after MoveDirectory, whether it returned nil or failed at any of its
\* calls, every file of the source tree is in full at its source path or at
\* its destination path; the source directory is gone only when every file
\* of it is at the destination, and so is each subdirectory of it.
C30_FallbackKeepsEveryFile ==
    run.outcome \in {"moved", "error"} =>
        /\ KeptAt(run.source0, source, target)
        /\ source.kind = "absent" => NothingLost(run.source0, target)
        /\ \A name \in DOMAIN run.source0.entries :
              (run.source0.entries[name].kind = "dir" /\ At(source, name).kind = "absent") =>
                  \A child \in DOMAIN run.source0.entries[name].entries : At(At(target, name), child) = run.source0.entries[name].entries[child]

\* the fallback failed after it had copied a subdirectory and deleted it at the source
C30_Witness ==
    /\ run.outcome = "error"
    /\ run.xdev
    /\ source.kind = "dir"
    /\ \E name \in DOMAIN run.source0.entries :
          /\ run.source0.entries[name].kind = "dir"
          /\ At(source, name).kind = "absent"
          /\ At(target, name) = run.source0.entries[name]
    /\ \E name \in DOMAIN source.entries : At(target, name) = File("truncated")

====
